---- MODULE Spec2Model ----
(***************************************************************************)
(* Asset registry chaincode of trancong12102/blockchainav.                 *)
(*                                                                         *)
(* The repository carries three versions of the contract:                  *)
(*   "main"  - package main      (src/unnamed/part_000, lines 141-342):    *)
(*             CreateAsset keyed by cid, type parsed by ParseAssetType,    *)
(*             GetAsset, AssetExists, QueryAssets;                         *)
(*   "seed"  - package chaincode (src/chaincode.go, lines 21-226):         *)
(*             CreateAsset keyed by id, no type check, ReadAsset,          *)
(*             AssetExists, QueryAssets, SeedLedger, DeleteSeededAssets;   *)
(*   "range" - package chaincode (src/unnamed/part_000, lines 1-139):      *)
(*             CreateAsset keyed by id, no type check, ReadAsset,          *)
(*             AssetExists, ReadAssets (range scan).                       *)
(* One of them is deployed (variable contract); every handler is one       *)
(* synchronous transaction and is modelled as one action.                  *)
(*                                                                         *)
(* The world state (stub.GetState / PutState / DelState / paginated        *)
(* iterators) is the Fabric shim, outside the repository: it is modelled   *)
(* by the abstract store contract, with its failures as inputs.            *)
(***************************************************************************)
EXTENDS Integers, Sequences, FiniteSets, TLC

(***************************************************************************)
(* Bounds                                                                  *)
(***************************************************************************)
\* number of distinct cids the callers use
NumAssets == 2
\* largest page size a caller asks for
MaxPageSize == 2

(***************************************************************************)
(* Inputs                                                                  *)
(***************************************************************************)
CidOf(i) == "CID_" \o ToString(i)
IdOf(i) == "ASSET_" \o ToString(i)

\* SeedLedger, DeleteSeededAssets: for i := range 100
SeedCount == 100

CIDs == {CidOf(i) : i \in 0..(NumAssets - 1)}
\* an id SeedLedger uses too, and the first one it does not use
IDs == {IdOf(0), IdOf(SeedCount)}
\* the keys of SeedLedger
SeededKeys == {IdOf(i) : i \in 0..(SeedCount - 1)}
\* the key written from outside the contract
ForeignKeys == {"LEGACY_0"}

\* "pdf" is outside the enum: it differs from "PDF" by case only
TypeRaws == {"PDF", "PE", "pdf"}
FeatureSet == {"[]"}
PageSizes == (0 - 1)..MaxPageSize
\* the page sizes given to QueryAssets, a Go int of 64 bits written
\* hi * 2^32 + lo: the sizes of PageSizes, and 2^32 and 2^32 + MaxPageSize
\* beyond the 32-bit range
QueryPageSizes ==
    {[hi |-> 0, lo |-> p] : p \in PageSizes}
        \cup {[hi |-> 1, lo |-> 0], [hi |-> 1, lo |-> MaxPageSize]}

\* ENUM(PDF, PE)
AssetTypes == {"PDF", "PE"}

Contracts == {"main", "seed", "range"}

(***************************************************************************)
(* Errors                                                                  *)
(***************************************************************************)
NoErr == "nil"
ErrAssetExists == "the asset already exists"
ErrNotFound == "the asset does not exist"
ErrInvalidAssetType == "not a valid AssetType"
StoreReadError == "read from ledger state"
StoreWriteError == "put asset in ledger state"
DecodingError == "unmarshal asset"
IteratorError == "read asset from iterator"
QueryError == "get query result"

(***************************************************************************)
(* Asset record and its JSON form.  Bytes are a sequence of tokens:        *)
(* "{", then name/value pairs, then "}".                                   *)
(***************************************************************************)
Asset(cid, features, id, type) ==
    [CID |-> cid, Features |-> features, ID |-> id, Type |-> type]

ZeroAsset == Asset("", "", "", "")

\* json.Marshal(asset): fields in struct order under their json tags
Marshal(a) ==
    <<"{", "cid", a.CID, "features", a.Features, "id", a.ID, "type", a.Type, "}">>

\* a JSON object: braces around an even number of tokens
WellFormed(b) ==
    /\ Len(b) >= 2
    /\ b[1] = "{"
    /\ b[Len(b)] = "}"
    /\ (Len(b) - 2) % 2 = 0

\* value of the last pair named name, "" when the object has none
FieldOf(b, name) ==
    LET hits == {i \in 1..((Len(b) - 2) \div 2) : b[2 * i] = name}
    IN  IF hits = {} THEN ""
        ELSE b[2 * (CHOOSE i \in hits : \A j \in hits : j <= i) + 1]

\* json.Unmarshal(bytes, &asset)
Unmarshal(b) ==
    IF WellFormed(b)
    THEN [err |-> NoErr,
          asset |-> Asset(FieldOf(b, "cid"), FieldOf(b, "features"),
                          FieldOf(b, "id"), FieldOf(b, "type"))]
    ELSE [err |-> DecodingError, asset |-> ZeroAsset]

(***************************************************************************)
(* The stub.  store is a function from the present keys to their bytes.    *)
(* fault names the store call the environment fails in this transaction.   *)
(***************************************************************************)
\* stub.GetState(key): (nil, nil) for an absent key.  A present value of
\* length 0 comes back as nil or as an empty slice, as the stub chooses
\* (emptyAsNil).
GetState(st, key, fault, emptyAsNil) ==
    IF fault = "get" THEN [err |-> TRUE, isNil |-> TRUE, bytes |-> <<>>]
    ELSE IF key \notin DOMAIN st THEN [err |-> FALSE, isNil |-> TRUE, bytes |-> <<>>]
    ELSE [err |-> FALSE, isNil |-> (st[key] = <<>> /\ emptyAsNil), bytes |-> st[key]]

\* stub.PutState(key, value)
PutState(st, key, value, fault) ==
    IF fault = "put" THEN [err |-> TRUE, store |-> st]
    ELSE [err |-> FALSE,
          store |-> [k \in (DOMAIN st) \cup {key} |-> IF k = key THEN value ELSE st[k]]]

\* stub.DelState(key)
DelState(st, key, fault) ==
    IF fault = "del" THEN [err |-> TRUE, store |-> st]
    ELSE [err |-> FALSE, store |-> [k \in (DOMAIN st) \ {key} |-> st[k]]]

(***************************************************************************)
(* Ledger access layer                                                     *)
(***************************************************************************)
\* variant: len(assetJSON) > 0 in place of assetJSON != nil
AssetExists_NonEmpty(st, key, fault, emptyAsNil) ==
    LET r == GetState(st, key, fault, emptyAsNil)
    IN  IF r.err THEN [val |-> FALSE, err |-> StoreReadError]
        ELSE [val |-> Len(r.bytes) > 0, err |-> NoErr]

\* AssetExists: assetJSON != nil
AssetExists(st, key, fault, emptyAsNil) ==
    LET r == GetState(st, key, fault, emptyAsNil)
    IN  IF r.err THEN [val |-> FALSE, err |-> StoreReadError]
        ELSE [val |-> ~r.isNil, err |-> NoErr]

\* ParseAssetType: generated from // ENUM(PDF, PE), case-sensitive lookup
ParseAssetType(raw) ==
    IF raw \in AssetTypes THEN [err |-> NoErr, val |-> raw]
    ELSE [err |-> ErrInvalidAssetType, val |-> ""]

\* variant: the record is put under assetID
CreateAssetMain_KeyById(st, assetCID, assetID, assetType, features, fault, emptyAsNil) ==
    LET ex == AssetExists(st, assetCID, fault, emptyAsNil)
        ty == ParseAssetType(assetType)
        put == PutState(st, assetID,
                        Marshal(Asset(assetCID, features, assetID, ty.val)), fault)
    IN  IF ex.err # NoErr THEN [err |-> ex.err, store |-> st, reads |-> {assetCID}]
        ELSE IF ex.val THEN [err |-> ErrAssetExists, store |-> st, reads |-> {assetCID}]
        ELSE IF ty.err # NoErr THEN [err |-> ty.err, store |-> st, reads |-> {assetCID}]
        ELSE IF put.err THEN [err |-> StoreWriteError, store |-> st, reads |-> {assetCID}]
        ELSE [err |-> NoErr, store |-> put.store, reads |-> {assetCID}]

\* variant: the type is parsed before the existence check
CreateAssetMain_ParseFirst(st, assetCID, assetID, assetType, features, fault, emptyAsNil) ==
    LET ex == AssetExists(st, assetCID, fault, emptyAsNil)
        ty == ParseAssetType(assetType)
        put == PutState(st, assetCID,
                        Marshal(Asset(assetCID, features, assetID, ty.val)), fault)
    IN  IF ty.err # NoErr THEN [err |-> ty.err, store |-> st, reads |-> {assetCID}]
        ELSE IF ex.err # NoErr THEN [err |-> ex.err, store |-> st, reads |-> {assetCID}]
        ELSE IF ex.val THEN [err |-> ErrAssetExists, store |-> st, reads |-> {assetCID}]
        ELSE IF put.err THEN [err |-> StoreWriteError, store |-> st, reads |-> {assetCID}]
        ELSE [err |-> NoErr, store |-> put.store, reads |-> {assetCID}]

\* variant: the record is put before the existence check is acted on
CreateAssetMain_PutOnExists(st, assetCID, assetID, assetType, features, fault, emptyAsNil) ==
    LET ex == AssetExists(st, assetCID, fault, emptyAsNil)
        ty == ParseAssetType(assetType)
        put == PutState(st, assetCID,
                        Marshal(Asset(assetCID, features, assetID, ty.val)), fault)
    IN  IF ex.err # NoErr THEN [err |-> ex.err, store |-> st, reads |-> {assetCID}]
        ELSE IF ty.err # NoErr THEN [err |-> ty.err, store |-> st, reads |-> {assetCID}]
        ELSE IF put.err THEN [err |-> StoreWriteError, store |-> st, reads |-> {assetCID}]
        ELSE IF ex.val THEN [err |-> ErrAssetExists, store |-> put.store, reads |-> {assetCID}]
        ELSE [err |-> NoErr, store |-> put.store, reads |-> {assetCID}]

\* variant: no existence check, the record is put over whatever is there
CreateAssetMain_NoExistsCheck(st, assetCID, assetID, assetType, features, fault, emptyAsNil) ==
    LET ty == ParseAssetType(assetType)
        put == PutState(st, assetCID,
                        Marshal(Asset(assetCID, features, assetID, ty.val)), fault)
    IN  IF fault = "get" THEN [err |-> StoreReadError, store |-> st, reads |-> {}]
        ELSE IF ty.err # NoErr THEN [err |-> ty.err, store |-> st, reads |-> {}]
        ELSE IF put.err THEN [err |-> StoreWriteError, store |-> st, reads |-> {}]
        ELSE [err |-> NoErr, store |-> put.store, reads |-> {}]

\* variant: the existence check is made on assetID, the put on assetCID
CreateAssetMain_ExistsById(st, assetCID, assetID, assetType, features, fault, emptyAsNil) ==
    LET ex == AssetExists(st, assetID, fault, emptyAsNil)
        ty == ParseAssetType(assetType)
        put == PutState(st, assetCID,
                        Marshal(Asset(assetCID, features, assetID, ty.val)), fault)
    IN  IF ex.err # NoErr THEN [err |-> ex.err, store |-> st, reads |-> {assetID}]
        ELSE IF ex.val THEN [err |-> ErrAssetExists, store |-> st, reads |-> {assetID}]
        ELSE IF ty.err # NoErr THEN [err |-> ty.err, store |-> st, reads |-> {assetID}]
        ELSE IF put.err THEN [err |-> StoreWriteError, store |-> st, reads |-> {assetID}]
        ELSE [err |-> NoErr, store |-> put.store, reads |-> {assetID}]

\* package main: CreateAsset(assetCID, assetID, assetType, features);
\* reads: the keys of the GetState calls made
CreateAssetMain(st, assetCID, assetID, assetType, features, fault, emptyAsNil) ==
    LET ex == AssetExists(st, assetCID, fault, emptyAsNil)
        ty == ParseAssetType(assetType)
        put == PutState(st, assetCID,
                        Marshal(Asset(assetCID, features, assetID, ty.val)), fault)
    IN  IF ex.err # NoErr THEN [err |-> ex.err, store |-> st, reads |-> {assetCID}]
        ELSE IF ex.val THEN [err |-> ErrAssetExists, store |-> st, reads |-> {assetCID}]
        ELSE IF ty.err # NoErr THEN [err |-> ty.err, store |-> st, reads |-> {assetCID}]
        ELSE IF put.err THEN [err |-> StoreWriteError, store |-> st, reads |-> {assetCID}]
        ELSE [err |-> NoErr, store |-> put.store, reads |-> {assetCID}]

\* package chaincode (chaincode.go): CreateAsset(id, cid, assetType, features)
CreateAssetSeed(st, id, cid, assetType, features, fault, emptyAsNil) ==
    LET ex == AssetExists(st, id, fault, emptyAsNil)
        put == PutState(st, id, Marshal(Asset(cid, features, id, assetType)), fault)
    IN  IF ex.err # NoErr THEN [err |-> ex.err, store |-> st, reads |-> {id}]
        ELSE IF ex.val THEN [err |-> ErrAssetExists, store |-> st, reads |-> {id}]
        ELSE IF put.err THEN [err |-> StoreWriteError, store |-> st, reads |-> {id}]
        ELSE [err |-> NoErr, store |-> put.store, reads |-> {id}]

\* package chaincode (part_000): CreateAsset(id, cid, assetType, features)
CreateAssetRange(st, id, cid, assetType, features, fault, emptyAsNil) ==
    LET ex == AssetExists(st, id, fault, emptyAsNil)
        put == PutState(st, id, Marshal(Asset(cid, features, id, assetType)), fault)
    IN  IF ex.err # NoErr THEN [err |-> ex.err, store |-> st, reads |-> {id}]
        ELSE IF ex.val THEN [err |-> ErrAssetExists, store |-> st, reads |-> {id}]
        ELSE IF put.err THEN [err |-> StoreWriteError, store |-> st, reads |-> {id}]
        ELSE [err |-> NoErr, store |-> put.store, reads |-> {id}]

\* the deployed contract's CreateAsset, arguments by name
CreateAssetOf(c, st, cid, id, assetType, features, fault, emptyAsNil) ==
    IF c = "main" THEN CreateAssetMain(st, cid, id, assetType, features, fault, emptyAsNil)
    ELSE IF c = "seed" THEN CreateAssetSeed(st, id, cid, assetType, features, fault, emptyAsNil)
    ELSE CreateAssetRange(st, id, cid, assetType, features, fault, emptyAsNil)

\* variant: no assetJSON == nil test before decoding
GetAsset_NoNilCheck(st, key, fault, emptyAsNil) ==
    LET r == GetState(st, key, fault, emptyAsNil)
        u == Unmarshal(r.bytes)
    IN  IF r.err THEN [err |-> StoreReadError, found |-> FALSE, asset |-> ZeroAsset]
        ELSE IF u.err # NoErr THEN [err |-> u.err, found |-> FALSE, asset |-> ZeroAsset]
        ELSE [err |-> NoErr, found |-> TRUE, asset |-> u.asset]

\* GetAsset (main) / ReadAsset (chaincode): the three bodies are the same
GetAsset(st, key, fault, emptyAsNil) ==
    LET r == GetState(st, key, fault, emptyAsNil)
        u == Unmarshal(r.bytes)
    IN  IF r.err THEN [err |-> StoreReadError, found |-> FALSE, asset |-> ZeroAsset]
        ELSE IF r.isNil THEN [err |-> ErrNotFound, found |-> FALSE, asset |-> ZeroAsset]
        ELSE IF u.err # NoErr THEN [err |-> u.err, found |-> FALSE, asset |-> ZeroAsset]
        ELSE [err |-> NoErr, found |-> TRUE, asset |-> u.asset]

(***************************************************************************)
(* The store's paginated reads (abstract store contract): keys in key      *)
(* order, at most pageSize of them after the bookmark; the bookmark is the *)
(* last key handed out and is returned unchanged when nothing is fetched.  *)
(***************************************************************************)
\* the decimal digits of n, as "%d" writes them
Digits(n) ==
    IF n < 10 THEN <<n>>
    ELSE IF n < 100 THEN <<n \div 10, n % 10>>
    ELSE <<n \div 100, (n \div 10) % 10, n % 10>>

\* s comes before t in the order of strings
DigitsBefore(s, t) ==
    \E i \in 1..(Len(s) + 1) :
        /\ \A j \in 1..(i - 1) : j <= Len(t) /\ s[j] = t[j]
        /\ i <= Len(t)
        /\ i <= Len(s) => s[i] < t[i]

\* the numbers 0..SeedCount in the order of their decimal strings
AssetOrder ==
    [r \in 1..(SeedCount + 1) |->
        CHOOSE n \in 0..SeedCount :
            Cardinality({m \in 0..SeedCount : DigitsBefore(Digits(m), Digits(n))}) = r - 1]

\* every key the store may hold, in key order: ASSET_* before CID_* before
\* LEGACY_0
KeyUniverse ==
    [i \in 1..(SeedCount + 1) |-> IdOf(AssetOrder[i])]
        \o [i \in 1..NumAssets |-> CidOf(i - 1)]
        \o <<"LEGACY_0">>

\* the keys the callers pass to the handlers
Keys == IDs \cup CIDs \cup ForeignKeys

KeyRanks ==
    [k \in {KeyUniverse[i] : i \in DOMAIN KeyUniverse} |->
        CHOOSE i \in DOMAIN KeyUniverse : KeyUniverse[i] = k]

\* position in the key order; 0 for the empty bookmark
KeyRank(k) == IF k = "" THEN 0 ELSE KeyRanks[k]

\* the keys ks in key order
SortedKeys(ks) ==
    [i \in 1..Cardinality(ks) |->
        CHOOSE k \in ks : Cardinality({o \in ks : KeyRank(o) < KeyRank(k)}) = i - 1]

QueryStrings == {"{}", "{type:PDF}"}

\* the store's selector evaluation, opaque to the contract
Matches(queryString, bytes) ==
    \/ queryString = "{}"
    \/ /\ queryString = "{type:PDF}"
       /\ WellFormed(bytes)
       /\ FieldOf(bytes, "type") = "PDF"

PageOf(st, ks, pageSize, bookmark) ==
    LET rest == SortedKeys({k \in ks : KeyRank(k) > KeyRank(bookmark)})
        n == IF pageSize <= 0 THEN 0
             ELSE IF pageSize < Len(rest) THEN pageSize ELSE Len(rest)
    IN  [err |-> FALSE,
         items |-> [i \in 1..n |-> st[rest[i]]],
         fetched |-> n,
         bookmark |-> IF n = 0 THEN bookmark ELSE rest[n],
         pageSize |-> pageSize,
         bookmarkIn |-> bookmark]

NoPage(pageSize, bookmark) ==
    [err |-> TRUE, items |-> <<>>, fetched |-> 0, bookmark |-> "",
     pageSize |-> pageSize, bookmarkIn |-> bookmark]

\* stub.GetStateByRangeWithPagination("", "", pageSize, bookmark)
GetStateByRangeWithPagination(st, pageSize, bookmark, fault) ==
    IF fault = "query" THEN NoPage(pageSize, bookmark)
    ELSE PageOf(st, DOMAIN st, pageSize, bookmark)

\* stub.GetQueryResultWithPagination(queryString, pageSize, bookmark)
GetQueryResultWithPagination(st, queryString, pageSize, bookmark, fault) ==
    IF fault = "query" THEN NoPage(pageSize, bookmark)
    ELSE PageOf(st, {k \in DOMAIN st : Matches(queryString, st[k])}, pageSize, bookmark)

(***************************************************************************)
(* Pagination engine.  log is the sequence of calls made on the iterator.  *)
(***************************************************************************)
\* variant: var asset declared outside the loop, every entry points at it
RECURSIVE constructQueryResponseFromIterator_SharedAsset(_, _, _, _, _)
constructQueryResponseFromIterator_SharedAsset(items, i, failAt, assets, log) ==
    IF i > Len(items) THEN [err |-> NoErr, assets |-> assets, log |-> log]
    ELSE IF i = failAt
         THEN [err |-> IteratorError, assets |-> <<>>, log |-> Append(log, "next")]
    ELSE LET u == Unmarshal(items[i])
         IN  IF u.err # NoErr
             THEN [err |-> DecodingError, assets |-> <<>>, log |-> Append(log, "next")]
             ELSE constructQueryResponseFromIterator_SharedAsset(items, i + 1, failAt,
                      [j \in 1..(Len(assets) + 1) |-> u.asset], Append(log, "next"))

\* variant: an item that does not decode is skipped (continue)
RECURSIVE constructQueryResponseFromIterator_SkipBad(_, _, _, _, _)
constructQueryResponseFromIterator_SkipBad(items, i, failAt, assets, log) ==
    IF i > Len(items) THEN [err |-> NoErr, assets |-> assets, log |-> log]
    ELSE IF i = failAt
         THEN [err |-> IteratorError, assets |-> <<>>, log |-> Append(log, "next")]
    ELSE LET u == Unmarshal(items[i])
         IN  constructQueryResponseFromIterator_SkipBad(items, i + 1, failAt,
                 IF u.err # NoErr THEN assets ELSE Append(assets, u.asset),
                 Append(log, "next"))

\* the loop: for it.HasNext() { it.Next(); json.Unmarshal; append }
\* failAt is the call of Next the store fails (0: none)
RECURSIVE constructQueryResponseFromIterator(_, _, _, _, _)
constructQueryResponseFromIterator(items, i, failAt, assets, log) ==
    IF i > Len(items) THEN [err |-> NoErr, assets |-> assets, log |-> log]
    ELSE IF i = failAt
         THEN [err |-> IteratorError, assets |-> <<>>, log |-> Append(log, "next")]
    ELSE LET u == Unmarshal(items[i])
         IN  IF u.err # NoErr
             THEN [err |-> DecodingError, assets |-> <<>>, log |-> Append(log, "next")]
             ELSE constructQueryResponseFromIterator(items, i + 1, failAt,
                      Append(assets, u.asset), Append(log, "next"))

NoResult(err, q, log) ==
    [err |-> err, hasPage |-> FALSE, records |-> <<>>,
     hasCount |-> FALSE, fetched |-> 0, bookmark |-> "",
     log |-> log, stubPageSize |-> q.pageSize, stubBookmark |-> q.bookmarkIn]

\* variant: the bookmark returned is the cid of the last record of the page
getQueryResultForQueryStringWithPagination_BookmarkFromLast(st, queryString, pageSize, bookmark, fault, failAt) ==
    LET q == GetQueryResultWithPagination(st, queryString, pageSize, bookmark, fault)
        d == constructQueryResponseFromIterator(q.items, 1, failAt, <<>>, <<"open">>)
    IN  IF q.err THEN NoResult(QueryError, q, <<>>)
        ELSE IF d.err # NoErr THEN NoResult(d.err, q, Append(d.log, "close"))
        ELSE [err |-> NoErr, hasPage |-> TRUE, records |-> d.assets,
              hasCount |-> TRUE, fetched |-> q.fetched,
              bookmark |-> IF d.assets = <<>> THEN ""
                           ELSE d.assets[Len(d.assets)].CID,
              log |-> Append(d.log, "close"),
              stubPageSize |-> q.pageSize, stubBookmark |-> q.bookmarkIn]

\* variant: Close called at the end of the function, not deferred
getQueryResultForQueryStringWithPagination_CloseAtEnd(st, queryString, pageSize, bookmark, fault, failAt) ==
    LET q == GetQueryResultWithPagination(st, queryString, pageSize, bookmark, fault)
        d == constructQueryResponseFromIterator(q.items, 1, failAt, <<>>, <<"open">>)
    IN  IF q.err THEN NoResult(QueryError, q, <<>>)
        ELSE IF d.err # NoErr THEN NoResult(d.err, q, d.log)
        ELSE [err |-> NoErr, hasPage |-> TRUE, records |-> d.assets,
              hasCount |-> TRUE, fetched |-> q.fetched, bookmark |-> q.bookmark,
              log |-> Append(d.log, "close"),
              stubPageSize |-> q.pageSize, stubBookmark |-> q.bookmarkIn]

getQueryResultForQueryStringWithPagination(st, queryString, pageSize, bookmark, fault, failAt) ==
    LET q == GetQueryResultWithPagination(st, queryString, pageSize, bookmark, fault)
        d == constructQueryResponseFromIterator(q.items, 1, failAt, <<>>, <<"open">>)
    IN  IF q.err THEN NoResult(QueryError, q, <<>>)
        ELSE IF d.err # NoErr THEN NoResult(d.err, q, Append(d.log, "close"))
        ELSE [err |-> NoErr, hasPage |-> TRUE, records |-> d.assets,
              hasCount |-> TRUE, fetched |-> q.fetched, bookmark |-> q.bookmark,
              log |-> Append(d.log, "close"),
              stubPageSize |-> q.pageSize, stubBookmark |-> q.bookmarkIn]

\* int32(pageSize), pageSize a Go int of 64 bits.  The 64-bit value is
\* written hi * 2^32 + lo, lo a signed 32-bit word; an int32 value v is
\* (0, v).  The conversion keeps the low word.
Int32(hi, lo) == lo

QueryAssets(st, queryString, pageSizeHi, pageSize, bookmark, fault, failAt) ==
    getQueryResultForQueryStringWithPagination(st, queryString,
                                               Int32(pageSizeHi, pageSize),
                                               bookmark, fault, failAt)

\* variant: assets := make([]*Asset, pageSize), then append
ReadAssets_MakeLen(st, pageSize, bookmark, fault, failAt) ==
    LET q == GetStateByRangeWithPagination(st, pageSize, bookmark, fault)
        d == constructQueryResponseFromIterator(q.items, 1, failAt, <<>>, <<"open">>)
        n == IF pageSize > 0 THEN pageSize ELSE 0
    IN  IF q.err THEN NoResult(QueryError, q, <<>>)
        ELSE IF d.err # NoErr THEN NoResult(d.err, q, Append(d.log, "close"))
        ELSE [err |-> NoErr, hasPage |-> TRUE,
              records |-> [i \in 1..n |-> ZeroAsset] \o d.assets,
              hasCount |-> FALSE, fetched |-> 0, bookmark |-> q.bookmark,
              log |-> Append(d.log, "close"),
              stubPageSize |-> q.pageSize, stubBookmark |-> q.bookmarkIn]

\* package chaincode (part_000): ReadAssets; AssetCursor{Assets, Bookmark}
\* carries no fetched count
ReadAssets(st, pageSize, bookmark, fault, failAt) ==
    LET q == GetStateByRangeWithPagination(st, pageSize, bookmark, fault)
        d == constructQueryResponseFromIterator(q.items, 1, failAt, <<>>, <<"open">>)
    IN  IF q.err THEN NoResult(QueryError, q, <<>>)
        ELSE IF d.err # NoErr THEN NoResult(d.err, q, Append(d.log, "close"))
        ELSE [err |-> NoErr, hasPage |-> TRUE, records |-> d.assets,
              hasCount |-> FALSE, fetched |-> 0, bookmark |-> q.bookmark,
              log |-> Append(d.log, "close"),
              stubPageSize |-> q.pageSize, stubBookmark |-> q.bookmarkIn]

(***************************************************************************)
(* Seeding utilities (chaincode.go)                                        *)
(***************************************************************************)
SeedTypes == <<"PDF", "PE">>

\* the arguments of the i-th CreateAsset of SeedLedger
SeedAsset(i) ==
    [id |-> IdOf(i), cid |-> CidOf(i), type |-> SeedTypes[(i % 2) + 1],
     features |-> "[]"]

\* SeedLedger: for i := range 100 { CreateAsset(ASSET_<i>, CID_<i>, ...) },
\* returning the first error.  The ids differ, so the existence check of
\* each CreateAsset reads a key that no earlier one wrote, and each can be
\* taken on the state st.  A transaction that returns an error commits none
\* of its writes.
SeedLedger(st, fault, emptyAsNil) ==
    LET rs == [i \in 0..(SeedCount - 1) |->
                 CreateAssetSeed(st, SeedAsset(i).id, SeedAsset(i).cid,
                                 SeedAsset(i).type, SeedAsset(i).features,
                                 fault, emptyAsNil)]
        failed == {i \in 0..(SeedCount - 1) : rs[i].err # NoErr}
        first == CHOOSE i \in failed : \A j \in failed : i <= j
        indexOf(k) == CHOOSE i \in 0..(SeedCount - 1) : IdOf(i) = k
    IN  IF failed # {} THEN [err |-> rs[first].err, store |-> st]
        ELSE [err |-> NoErr,
              store |-> [k \in (DOMAIN st) \cup SeededKeys |->
                           IF k \in SeededKeys THEN rs[indexOf(k)].store[k]
                           ELSE st[k]]]

\* variant: the keys deleted are CID_<i>
DeleteSeededAssets_ByCid(st, fault) ==
    LET seeded == {CidOf(i) : i \in 0..(SeedCount - 1)}
    IN  IF \E k \in seeded : DelState(st, k, fault).err
        THEN [err |-> StoreWriteError, store |-> st]
        ELSE [err |-> NoErr, store |-> [k \in (DOMAIN st) \ seeded |-> st[k]]]

\* DeleteSeededAssets: for i := range 100 { DelState("ASSET_<i>") }; a
\* transaction that returns an error commits none of its writes
DeleteSeededAssets(st, fault) ==
    LET seeded == {IdOf(i) : i \in 0..(SeedCount - 1)}
    IN  IF \E k \in seeded : DelState(st, k, fault).err
        THEN [err |-> StoreWriteError, store |-> st]
        ELSE [err |-> NoErr, store |-> [k \in (DOMAIN st) \ seeded |-> st[k]]]

(***************************************************************************)
(* State                                                                   *)
(***************************************************************************)
VARIABLES
    contract,   \* the deployed version of the contract
    store,      \* world state: present key -> bytes
    tx,         \* the last transaction: handler, arguments, results
    ledger      \* the ordering and validation of concurrent transactions

vars == <<contract, store, tx, ledger>>

EmptyStore == [k \in {} |-> <<>>]

\* tx of a handler that takes no argument and returns nothing
Tx0 ==
    [op |-> "none", cid |-> "", id |-> "", type |-> "", features |-> "", key |-> "",
     err |-> NoErr, val |-> FALSE, stubNil |-> FALSE, found |-> FALSE,
     asset |-> ZeroAsset,
     query |-> "", pageSizeHi |-> 0, pageSize |-> 0, bookmarkIn |-> "",
     hasPage |-> FALSE, records |-> <<>>, hasCount |-> FALSE, fetched |-> 0,
     bookmark |-> "",
     log |-> <<>>, stubPageSize |-> 0, stubBookmark |-> "",
     pages |-> <<>>, done |-> FALSE,
     pre |-> <<>>, removed |-> 0]

(***************************************************************************)
(* The external ledger (black box of the specification): a transaction is  *)
(* simulated against the committed state, which records the version of     *)
(* every key it reads and the writes it asks for; the ledger orders the    *)
(* simulated transactions and commits one only if every key it read still  *)
(* has the version read.                                                   *)
(***************************************************************************)
Clients == {"c1", "c2"}

NoProposal ==
    [live |-> FALSE, cid |-> "", id |-> "", rset |-> <<>>, wset |-> <<>>]

Ledger0 ==
    [pending |-> [c \in Clients |-> NoProposal],
     version |-> [k \in Keys |-> 0],
     commits |-> [k \in Keys |-> <<>>]]

MVCCReadConflict == "MVCC_READ_CONFLICT"

Init ==
    /\ contract \in Contracts
    /\ store = EmptyStore
    /\ tx = Tx0
    /\ ledger = Ledger0

\* how the stub may hand back the value under key
EmptyChoices(st, key) ==
    IF key \in DOMAIN st /\ st[key] = <<>> THEN BOOLEAN ELSE {TRUE}

(***************************************************************************)
(* Transactions                                                            *)
(***************************************************************************)
Ping ==
    /\ tx' = [Tx0 EXCEPT !.op = "Ping"]
    /\ UNCHANGED <<contract, store, ledger>>

CreateAsset ==
    \E cid \in CIDs, id \in IDs, type \in TypeRaws, features \in FeatureSet,
       fault \in {"none", "get", "put"} :
      \E e \in EmptyChoices(store, IF contract = "main" THEN cid ELSE id) :
        LET r == CreateAssetOf(contract, store, cid, id, type, features, fault, e)
        IN  /\ store' = r.store
            /\ tx' = [Tx0 EXCEPT !.op = "CreateAsset", !.cid = cid, !.id = id,
                                 !.type = type, !.features = features, !.err = r.err]
            /\ UNCHANGED <<contract, ledger>>

\* GetAsset (main), ReadAsset (seed, range)
GetAssetTx ==
    \E key \in Keys, fault \in {"none", "get"} :
      \E e \in EmptyChoices(store, key) :
        LET r == GetAsset(store, key, fault, e)
        IN  /\ tx' = [Tx0 EXCEPT !.op = "GetAsset", !.key = key, !.err = r.err,
                                 !.found = r.found, !.asset = r.asset]
            /\ UNCHANGED <<contract, store, ledger>>

AssetExistsTx ==
    \E key \in Keys, fault \in {"none", "get"} :
      \E e \in EmptyChoices(store, key) :
        LET r == AssetExists(store, key, fault, e)
        IN  /\ tx' = [Tx0 EXCEPT !.op = "AssetExists", !.key = key, !.err = r.err,
                                 !.val = r.val,
                                 !.stubNil = GetState(store, key, fault, e).isNil]
            /\ UNCHANGED <<contract, store, ledger>>

\* a caller starts a listing with the empty bookmark, or goes on with the
\* bookmark, query and page size of the listing call just before
Continues(op) ==
    /\ tx.op = op
    /\ tx.err = NoErr
    /\ ~tx.done

ListTx(op, r, queryString, pageSizeHi, pageSize, bookmark, cont) ==
    LET before == IF cont THEN tx.pages ELSE <<>>
    IN  [Tx0 EXCEPT !.op = op, !.query = queryString,
                    !.pageSizeHi = pageSizeHi, !.pageSize = pageSize,
                    !.bookmarkIn = bookmark, !.err = r.err, !.hasPage = r.hasPage,
                    !.records = r.records, !.hasCount = r.hasCount,
                    !.fetched = r.fetched,
                    !.bookmark = r.bookmark, !.log = r.log,
                    !.stubPageSize = r.stubPageSize, !.stubBookmark = r.stubBookmark,
                    !.pages = IF r.hasPage THEN before \o r.records ELSE <<>>,
                    !.done = (/\ r.hasPage
                              /\ IF r.hasCount THEN r.fetched = 0
                                 ELSE Len(r.records) = 0
                              /\ r.bookmark = bookmark)]

\* failAt: -1 the store refuses the query, 0 no failure, i the i-th Next fails
ListFault(failAt) == IF failAt < 0 THEN "query" ELSE "none"

\* the store hands out at most pageSize items: Next is called at most
\* pageSize times
FailPoints(pageSize) == (0 - 1)..(IF pageSize > 0 THEN pageSize ELSE 0)

QueryAssetsTx ==
    /\ contract \in {"main", "seed"}
    /\ \E cont \in BOOLEAN :
         /\ cont => Continues("QueryAssets")
         /\ \E queryString \in IF cont THEN {tx.query} ELSE QueryStrings,
               ps \in IF cont THEN {[hi |-> tx.pageSizeHi, lo |-> tx.pageSize]}
                      ELSE QueryPageSizes :
              \E failAt \in FailPoints(Int32(ps.hi, ps.lo)) :
                LET bookmark == IF cont THEN tx.bookmark ELSE ""
                    r == QueryAssets(store, queryString, ps.hi, ps.lo, bookmark,
                                     ListFault(failAt), failAt)
                IN  tx' = ListTx("QueryAssets", r, queryString, ps.hi, ps.lo,
                                 bookmark, cont)
    /\ UNCHANGED <<contract, store, ledger>>

ReadAssetsTx ==
    /\ contract = "range"
    /\ \E cont \in BOOLEAN :
         /\ cont => Continues("ReadAssets")
         /\ \E pageSize \in IF cont THEN {tx.pageSize} ELSE PageSizes :
              \E failAt \in FailPoints(pageSize) :
                LET bookmark == IF cont THEN tx.bookmark ELSE ""
                    r == ReadAssets(store, pageSize, bookmark, ListFault(failAt), failAt)
                IN  tx' = ListTx("ReadAssets", r, "", 0, pageSize, bookmark, cont)
    /\ UNCHANGED <<contract, store, ledger>>

\* pre: the store the transaction started on
SeedLedgerTx ==
    /\ contract = "seed"
    /\ \E fault \in {"none", "get", "put"} :
         LET r == SeedLedger(store, fault, TRUE)
         IN  /\ store' = r.store
             /\ tx' = [Tx0 EXCEPT !.op = "SeedLedger", !.err = r.err, !.pre = store]
    /\ UNCHANGED <<contract, ledger>>

\* removed: the number of keys the transaction took out of the store
DeleteSeededAssetsTx ==
    /\ contract = "seed"
    /\ \E fault \in {"none", "del"} :
         LET r == DeleteSeededAssets(store, fault)
         IN  /\ store' = r.store
             /\ tx' = [Tx0 EXCEPT !.op = "DeleteSeededAssets", !.err = r.err,
                                  !.removed = Cardinality((DOMAIN store) \ DOMAIN r.store)]
    /\ UNCHANGED <<contract, ledger>>

Next ==
    \/ Ping
    \/ CreateAsset
    \/ GetAssetTx
    \/ AssetExistsTx
    \/ QueryAssetsTx
    \/ ReadAssetsTx
    \/ DeleteSeededAssetsTx

Spec == Init /\ [][Next]_vars

(***************************************************************************)
(* The world state written from outside CreateAsset (another chaincode     *)
(* version, a state-database edit): values CreateAsset never writes.       *)
(***************************************************************************)
ForeignValues == {<<>>, <<"{">>}

ExternalPut ==
    \E key \in ForeignKeys, value \in ForeignValues :
      /\ store' = PutState(store, key, value, "none").store
      /\ tx' = [Tx0 EXCEPT !.op = "ExternalPut", !.key = key]
      /\ UNCHANGED <<contract, ledger>>

NextExt ==
    \/ ExternalPut
    \/ CreateAsset
    \/ GetAssetTx
    \/ AssetExistsTx
    \/ QueryAssetsTx
    \/ ReadAssetsTx

SpecExt == Init /\ [][NextExt]_vars

(***************************************************************************)
(* The seeding utilities of chaincode.go, with CreateAsset and the point   *)
(* reads.                                                                  *)
(***************************************************************************)
NextSeed ==
    \/ SeedLedgerTx
    \/ DeleteSeededAssetsTx
    \/ CreateAsset
    \/ GetAssetTx
    \/ AssetExistsTx

SpecSeed == Init /\ [][NextSeed]_vars

(***************************************************************************)
(* Concurrent CreateAsset transactions.                                    *)
(***************************************************************************)
ConcTypes == {"PDF", "pdf"}

\* the keys a simulation asked to write, with their new bytes
WriteSet(st, after) ==
    LET ws == {k \in DOMAIN after : k \notin DOMAIN st \/ after[k] # st[k]}
    IN  [k \in ws |-> after[k]]

\* the versions of the keys a simulation read
ReadSet(reads) == [k \in reads |-> ledger.version[k]]

\* every key read still has the version read
Validate(p) == \A k \in DOMAIN p.rset : ledger.version[k] = p.rset[k]

\* a client has CreateAsset simulated on the committed state; nothing is
\* written yet, and a simulation that returns an error is not submitted
EndorseTx ==
    \E c \in Clients, cid \in CIDs, id \in IDs, type \in ConcTypes,
       features \in FeatureSet, fault \in {"none", "get", "put"} :
      LET r == CreateAssetOf(contract, store, cid, id, type, features, fault, TRUE)
          p == [live |-> TRUE, cid |-> cid, id |-> id,
                rset |-> ReadSet(r.reads), wset |-> WriteSet(store, r.store)]
      IN  /\ ~ledger.pending[c].live
          /\ ledger' = IF r.err = NoErr
                       THEN [ledger EXCEPT !.pending[c] = p]
                       ELSE ledger
          /\ tx' = [Tx0 EXCEPT !.op = "Endorse", !.cid = cid, !.id = id,
                               !.type = type, !.features = features, !.err = r.err]
          /\ UNCHANGED <<contract, store>>

\* the ledger orders a simulated transaction next: valid, its writes are
\* applied as they are; invalid, it is dropped
CommitTx ==
    \E c \in Clients :
      LET p == ledger.pending[c]
          ws == DOMAIN p.wset
      IN  /\ p.live
          /\ IF Validate(p)
             THEN /\ store' = [k \in (DOMAIN store) \cup ws |->
                                  IF k \in ws THEN p.wset[k] ELSE store[k]]
                  /\ ledger' =
                       [pending |-> [ledger.pending EXCEPT ![c] = NoProposal],
                        version |-> [k \in Keys |->
                                       IF k \in ws THEN ledger.version[k] + 1
                                       ELSE ledger.version[k]],
                        commits |-> [k \in Keys |->
                                       IF k \in ws
                                       THEN Append(ledger.commits[k], p.wset[k])
                                       ELSE ledger.commits[k]]]
                  /\ tx' = [Tx0 EXCEPT !.op = "Commit", !.cid = p.cid, !.id = p.id]
             ELSE /\ store' = store
                  /\ ledger' = [ledger EXCEPT !.pending[c] = NoProposal]
                  /\ tx' = [Tx0 EXCEPT !.op = "Commit", !.cid = p.cid, !.id = p.id,
                                       !.err = MVCCReadConflict]
          /\ UNCHANGED contract

NextConc ==
    \/ EndorseTx
    \/ CommitTx

SpecConc == Init /\ [][NextConc]_vars

(***************************************************************************)
(* Properties                                                              *)
(***************************************************************************)
StoreFaults == {StoreReadError, StoreWriteError}

ListOps == {"QueryAssets", "ReadAssets"}

\* some live record carries this cid
CidLive(st, cid) ==
    \E k \in DOMAIN st : Unmarshal(st[k]).err = NoErr /\ Unmarshal(st[k]).asset.CID = cid

\* the records of one unbounded scan of the keys ks, in key order
FullScan(st, ks) ==
    LET sorted == SortedKeys(ks)
    IN  [i \in 1..Len(sorted) |-> Unmarshal(st[sorted[i]]).asset]

\* the keys a listing of the last transaction's kind ranges over
Listed(st) ==
    IF tx.op = "ReadAssets" THEN DOMAIN st
    ELSE {k \in DOMAIN st : Matches(tx.query, st[k])}

\* C1: package main, working store: CreateAsset with a type of the enum and a
\* cid absent from the store succeeds; right after it AssetExists(cid) is
\* true and GetAsset(cid) returns exactly the id, cid, type and features
\* that were passed.
C1_RoundTrip ==
    [][(/\ contract = "main"
        /\ tx'.op = "CreateAsset"
        /\ tx'.type \in AssetTypes
        /\ tx'.cid \notin DOMAIN store
        /\ tx'.err \notin StoreFaults)
       => (/\ tx'.err = NoErr
           /\ AssetExists(store', tx'.cid, "none", TRUE) = [val |-> TRUE, err |-> NoErr]
           /\ GetAsset(store', tx'.cid, "none", TRUE) =
                [err |-> NoErr, found |-> TRUE,
                 asset |-> Asset(tx'.cid, tx'.features, tx'.id, tx'.type)])]_vars

C1_Witness ==
    /\ contract = "main"
    /\ tx.op = "CreateAsset"
    /\ tx.err = NoErr
    /\ tx.type = "PE"
    /\ GetAsset(store, tx.cid, "none", TRUE).asset.ID = tx.id

\* C2: working store: CreateAsset with a cid that a live record already
\* carries fails with ErrAssetExists and leaves the store as it was.
C2_RejectDuplicate ==
    [][(/\ tx'.op = "CreateAsset"
        /\ CidLive(store, tx'.cid)
        /\ tx'.err \notin StoreFaults)
       => (tx'.err = ErrAssetExists /\ store' = store)]_vars

\* C3 as stated: package main, working store: CreateAsset with a typeRaw
\* outside the enum fails with the invalid-enum error, writes nothing, and
\* AssetExists(cid) is false afterwards.
C3_Original ==
    [][(/\ contract = "main"
        /\ tx'.op = "CreateAsset"
        /\ tx'.type \notin AssetTypes
        /\ tx'.err \notin StoreFaults)
       => (/\ tx'.err = ErrInvalidAssetType
           /\ store' = store
           /\ ~AssetExists(store', tx'.cid, "none", TRUE).val)]_vars

\* C3 amended: package main: CreateAsset with a typeRaw outside the enum
\* always fails and writes nothing; when the existence check succeeds and
\* finds the cid absent the failure is the invalid-enum error and
\* AssetExists(cid) is false afterwards; when the cid is present the failure
\* is ErrAssetExists.
C3_InvalidType ==
    [][(/\ contract = "main"
        /\ tx'.op = "CreateAsset"
        /\ tx'.type \notin AssetTypes)
       => (/\ tx'.err # NoErr
           /\ store' = store
           /\ (tx'.cid \notin DOMAIN store /\ tx'.err \notin StoreFaults)
                => (/\ tx'.err = ErrInvalidAssetType
                    /\ ~AssetExists(store', tx'.cid, "none", TRUE).val)
           /\ (tx'.cid \in DOMAIN store /\ tx'.err \notin StoreFaults)
                => tx'.err = ErrAssetExists)]_vars

C3_Witness ==
    /\ contract = "main"
    /\ tx.op = "CreateAsset"
    /\ tx.type = "pdf"
    /\ tx.err = ErrInvalidAssetType
    /\ tx.cid \notin DOMAIN store
    /\ store # EmptyStore

\* C4: working store: GetAsset / ReadAsset of a key absent from the store
\* fails with ErrNotFound, returns no record and leaves the store as it was.
C4_NotFound ==
    [][(/\ tx'.op = "GetAsset"
        /\ tx'.key \notin DOMAIN store
        /\ tx'.err # StoreReadError)
       => (/\ tx'.err = ErrNotFound
           /\ ~tx'.found
           /\ tx'.asset = ZeroAsset
           /\ store' = store)]_vars

C4_Witness ==
    /\ tx.op = "GetAsset"
    /\ tx.err = ErrNotFound
    /\ tx.key \notin DOMAIN store
    /\ store # EmptyStore

C6_UniqueCid ==
    \A k1, k2 \in DOMAIN store :
        (k1 # k2 /\ Unmarshal(store[k1]).err = NoErr /\ Unmarshal(store[k2]).err = NoErr)
            => Unmarshal(store[k1]).asset.CID # Unmarshal(store[k2]).asset.CID

\* C7: every record persisted in the store has a type of the enum {PDF, PE}.
C7_TypeInvariant ==
    \A k \in DOMAIN store :
        Unmarshal(store[k]).err = NoErr => Unmarshal(store[k]).asset.Type \in AssetTypes

\* C8: package main: a successful CreateAsset(cid, ...) adds exactly the key
\* cid and leaves every other key and value as it was; a failed CreateAsset
\* leaves the whole store as it was.
C8_CreateFootprint ==
    [][(contract = "main" /\ tx'.op = "CreateAsset")
       => IF tx'.err = NoErr
          THEN /\ tx'.cid \notin DOMAIN store
               /\ DOMAIN store' = (DOMAIN store) \cup {tx'.cid}
               /\ \A k \in DOMAIN store : store'[k] = store[k]
          ELSE store' = store]_vars

C8_Witness ==
    /\ contract = "main"
    /\ tx.op = "CreateAsset"
    /\ tx.err = NoErr
    /\ Cardinality(DOMAIN store) >= 2

C10_IteratorReleased ==
    tx.op \in ListOps
        => IF tx.err = QueryError THEN tx.log = <<>>
           ELSE /\ Len(tx.log) >= 2
                /\ tx.log[1] = "open"
                /\ tx.log[Len(tx.log)] = "close"
                /\ \A i \in 2..(Len(tx.log) - 1) : tx.log[i] = "next"

C10_Witness ==
    /\ tx.op \in ListOps
    /\ tx.err = DecodingError
    /\ Len(tx.log) >= 4

\* the items the store put behind the iterator of the last listing
StoreItems ==
    PageOf(store, Listed(store), tx.stubPageSize, tx.stubBookmark).items

\* positions of the items that do not decode
BadItems == {i \in 1..Len(StoreItems) : Unmarshal(StoreItems[i]).err # NoErr}

\* number of calls of Next in the last listing
NextCalls == Len(tx.log) - 2

\* C11: a listing that hits an item that does not decode, or a failing Next,
\* stops at that item and returns an error and no page at all (no records,
\* no count, no bookmark), however many items decoded before it; a listing
\* returns a page only when every item decoded.
C11_NoPartialPage ==
    tx.op \in ListOps
        => /\ tx.err # NoErr
                => /\ ~tx.hasPage
                   /\ tx.records = <<>>
                   /\ tx.fetched = 0
                   /\ tx.bookmark = ""
                   /\ tx.pages = <<>>
           /\ tx.err = DecodingError
                => /\ NextCalls \in BadItems
                   /\ \A j \in 1..(NextCalls - 1) : j \notin BadItems
           /\ tx.err = IteratorError
                => /\ NextCalls >= 1
                   /\ \A j \in 1..(NextCalls - 1) : j \notin BadItems
           /\ tx.err = NoErr => (tx.hasPage /\ BadItems = {})

C11_Witness ==
    /\ tx.op = "QueryAssets"
    /\ tx.err = DecodingError
    /\ NextCalls = 2
    /\ BadItems = {2}

\* the records still to list when the last listing call was made
Remaining ==
    Len(FullScan(store, Listed(store))) - (Len(tx.pages) - Len(tx.records))

ReadOps == {"Ping", "GetAsset", "AssetExists", "QueryAssets", "ReadAssets"}

\* C13: in every step a key that is present stays present with the same
\* bytes, unless the step is the explicit delete (DeleteSeededAssets); Ping
\* and the read and list operations leave the whole store as it was.
C13_Immutable ==
    [][/\ tx'.op # "DeleteSeededAssets"
            => \A k \in DOMAIN store : k \in DOMAIN store' /\ store'[k] = store[k]
       /\ tx'.op \in ReadOps => store' = store]_vars

\* a CreateAsset for a present cid with another id was refused and the
\* record under the cid is still the first one
C13_Witness ==
    /\ contract = "main"
    /\ tx.op = "CreateAsset"
    /\ tx.err = ErrAssetExists
    /\ tx.cid \in DOMAIN store
    /\ Unmarshal(store[tx.cid]).asset.ID # tx.id

\* C14: every store key holds a record that decodes, and the key equals the
\* cid field of that record.
C14_KeyIsCid ==
    \A k \in DOMAIN store :
        /\ Unmarshal(store[k]).err = NoErr
        /\ Unmarshal(store[k]).asset.CID = k

\* C15: package main, CreateAsset transactions simulated concurrently and
\* validated by the ledger on their read of the cid: at most one create per
\* cid ever commits, the record under the cid is the record of that create,
\* and a cid is present only by a committed create.
C15_ExactlyOnce ==
    contract = "main"
        => \A cid \in CIDs :
             /\ Len(ledger.commits[cid]) <= 1
             /\ cid \in DOMAIN store <=> Len(ledger.commits[cid]) = 1
             /\ cid \in DOMAIN store => store[cid] = ledger.commits[cid][1]

\* two creates of the same cid were simulated on a state without it; one
\* has committed and the other has just been refused by the ledger
C15_Witness ==
    /\ contract = "main"
    /\ tx.op = "Commit"
    /\ tx.err = MVCCReadConflict
    /\ Len(ledger.commits[tx.cid]) = 1
    /\ Unmarshal(store[tx.cid]).asset.ID # tx.id

\* C16: package main: CreateAsset with a typeRaw outside the enum and a cid
\* that is present fails with ErrAssetExists, not with the invalid-enum
\* error, unless the read of the existence check fails; a failed read of the
\* existence check is returned as the store read error whatever the typeRaw
\* is; and no call that fails either check writes.
C16_CheckOrder ==
    /\ [][(/\ contract = "main"
           /\ tx'.op = "CreateAsset"
           /\ tx'.type \notin AssetTypes)
          => /\ store' = store
             /\ tx'.cid \in DOMAIN store
                   => tx'.err \in {ErrAssetExists, StoreReadError}
             /\ tx'.cid \notin DOMAIN store
                   => tx'.err \in {ErrInvalidAssetType, StoreReadError}]_vars
    /\ [](\A cid \in CIDs, id \in IDs, type \in TypeRaws, features \in FeatureSet :
            LET r == CreateAssetMain(store, cid, id, type, features, "get", TRUE)
            IN  r.err = StoreReadError /\ r.store = store)

C16_Witness ==
    /\ contract = "main"
    /\ tx.op = "CreateAsset"
    /\ tx.type = "pdf"
    /\ tx.err = ErrAssetExists
    /\ Unmarshal(store[tx.cid]).asset.Type = "PE"

\* what the store reported for the call it received in the last listing
StorePage == PageOf(store, Listed(store), tx.stubPageSize, tx.stubBookmark)

C18_PageSizeForwarded ==
    tx.op = "QueryAssets"
        => [hi |-> 0, lo |-> tx.stubPageSize] = [hi |-> tx.pageSizeHi, lo |-> tx.pageSize]

\* C19: chaincode.go: SeedLedger on a store that holds none of the keys
\* ASSET_0..ASSET_99 succeeds unless a store call fails, adds exactly these
\* 100 keys, each with its own record, and leaves the other keys as they
\* were; a successful DeleteSeededAssets right after a successful SeedLedger
\* gives back the store SeedLedger started on, and AssetExists is false for
\* each seeded id.
C19_SeedDeleteInverse ==
    [][/\ (/\ tx'.op = "SeedLedger"
           /\ SeededKeys \cap DOMAIN store = {}
           /\ tx'.err \notin StoreFaults)
          => /\ tx'.err = NoErr
             /\ DOMAIN store' = (DOMAIN store) \cup SeededKeys
             /\ Cardinality((DOMAIN store') \ DOMAIN store) = SeedCount
             /\ \A k \in DOMAIN store : store'[k] = store[k]
             /\ \A i \in 0..(SeedCount - 1) :
                  GetAsset(store', IdOf(i), "none", TRUE) =
                    [err |-> NoErr, found |-> TRUE,
                     asset |-> Asset(CidOf(i), "[]", IdOf(i), SeedTypes[(i % 2) + 1])]
       /\ (/\ tx.op = "SeedLedger"
           /\ tx.err = NoErr
           /\ tx'.op = "DeleteSeededAssets"
           /\ tx'.err = NoErr)
          => /\ store' = tx.pre
             /\ \A i \in 0..(SeedCount - 1) :
                  ~AssetExists(store', IdOf(i), "none", TRUE).val]_vars

\* DeleteSeededAssets has removed the 100 seeded keys and what is left is
\* the record that was there before the seeding
C19_Witness ==
    /\ tx.op = "DeleteSeededAssets"
    /\ tx.err = NoErr
    /\ tx.removed = SeedCount
    /\ DOMAIN store = {IdOf(SeedCount)}

====
